---------------------------- MODULE Spec2Model ----------------------------
(***************************************************************************)
(* Model of gallivant's device transaction engine                          *)
(* (execution/transaction.rs) and measurement evaluation                   *)
(* (evaluation/measurement.rs).                                            *)
(*                                                                         *)
(* Bytes are their numeric values: 13 is carriage return, 43 '+',          *)
(* 49 '1', 65 'A', 90 'Z', 255 a byte that is never part of valid UTF-8.   *)
(* An Option<T> is a sequence of length 0 (None) or 1 (Some).              *)
(***************************************************************************)
EXTENDS Integers, Sequences, FiniteSets, TLC

VARIABLES
    tx,        \* the Transaction value the caller currently holds
    result,    \* what the last process() call gave the caller
    created,   \* the Transaction as constructed (with_tcu / with_printer)
    script,    \* what the device answers: script[1] to the first write, script[2] to every re-send
    rx,        \* bytes the device has sent that no read has returned yet
    wire,      \* every byte the channel has accepted from write_all, in order
    nwrites,   \* number of completed write_all calls
    call,      \* channel operations and evaluation steps of the last process() call
    ngraded,   \* number of MeasurementTest::test calls the transaction has made
    grade,     \* state of the grading harness (MeasurementTest::test applied repeatedly)
    decode     \* state of the decoding harness (Measurement::try_from applied to bytes)

vars == <<tx, result, created, script, rx, wire, nwrites, call, ngraded, grade, decode>>

----------------------------------------------------------------------------
(* Bounds of the model *)

\* Largest retries count a MeasurementTest is created with.
MaxRetries == 2

\* Largest measurement value, range endpoint the grading harness draws.
MaxValue == 4

\* Longest byte string the decoding harness draws from its alphabet.
MaxInputLen == 3

----------------------------------------------------------------------------
(* Program constants *)

\* b'\r', the segment terminator.
CR == 13

\* Size of the read buffer of one process() call.
BufferSize == 256

\* A u32 is held as its two 16-bit halves [hi, lo]: the model's integers end
\* at 2^31 - 1, a u32 at 2^32 - 1.
Half == 65536

Min(a, b) == IF a <= b THEN a ELSE b

----------------------------------------------------------------------------
(* evaluation/measurement.rs *)

\* char::to_digit(16) as u32::from_str_radix uses it, -1 for a non-digit.
HexDigit(b) ==
    IF b >= 48 /\ b <= 57 THEN b - 48
    ELSE IF b >= 65 /\ b <= 70 THEN b - 55
    ELSE IF b >= 97 /\ b <= 102 THEN b - 87
    ELSE -1

\* std::str::from_utf8: every byte below 128 is a one-byte character; the
\* only larger byte the model uses (255) is never valid.
IsUtf8(bytes) == \A i \in 1..Len(bytes) : bytes[i] < 128

\* chars().take_while(|c| c != '\r')
RECURSIVE TakeUntilCR(_)
TakeUntilCR(s) ==
    IF s = <<>> \/ Head(s) = CR THEN <<>>
    ELSE <<Head(s)>> \o TakeUntilCR(Tail(s))

\* The u32 of a small natural number.
U32(n) == [hi |-> n \div Half, lo |-> n % Half]

\* u32's <=
Le(a, b) == a.hi < b.hi \/ (a.hi = b.hi /\ a.lo <= b.lo)

\* checked_mul(16) then checked_add(d) on a u32: <<>> on overflow.
MulAdd(acc, d) ==
    LET lo == acc.lo * 16 + d
        hi == acc.hi * 16 + lo \div Half
    IN  IF hi >= Half THEN <<>> ELSE <<[hi |-> hi, lo |-> lo % Half]>>

\* The digit loop of u32::from_str_radix: <<>> on an invalid digit or on
\* overflow, else <<value>>.
RECURSIVE ParseDigits(_, _)
ParseDigits(digits, acc) ==
    IF digits = <<>> THEN <<acc>>
    ELSE IF HexDigit(Head(digits)) < 0 THEN <<>>
    ELSE LET next == MulAdd(acc, HexDigit(Head(digits)))
         IN  IF next = <<>> THEN <<>> ELSE ParseDigits(Tail(digits), next[1])

\* u32::from_str_radix(s, 16): an empty string fails, a lone sign fails, a
\* leading '+' is accepted, '-' is no digit of an unsigned type.
FromStrRadix16(s) ==
    IF s = <<>> THEN <<>>
    ELSE IF Len(s) = 1 /\ (s[1] = 43 \/ s[1] = 45) THEN <<>>
    ELSE IF s[1] = 43 THEN ParseDigits(Tail(s), U32(0))
    ELSE ParseDigits(s, U32(0))

\* The body of try_from, as a function of the byte slice.
MeasurementOf[bytes \in Seq(0..255)] ==
    IF ~IsUtf8(bytes) THEN <<>>
    ELSE FromStrRadix16(TakeUntilCR(bytes))

\* impl TryFrom<&[u8]> for Measurement: <<v>> is Ok(Measurement(v)), <<>> is
\* Err(ParseError).
MeasurementTryFrom(bytes) == MeasurementOf[bytes]

\* Mutant of Contains: the upper endpoint excluded (min..max instead of min..=max).
ContainsHalfOpen(expected, v) == Le(expected.min, v) /\ ~Le(expected.max, v)

\* RangeInclusive::contains
Contains(expected, v) == Le(expected.min, v) /\ Le(v, expected.max)

\* Mutant of Test: the retryable failure embeds the test as it was, without
\* the decrement.
TestNoDecrement(test, measurement) ==
    IF ~Contains(test.expected, measurement)
    THEN IF test.retries > 0
         THEN [kind |-> "TestFailedRetryable", test |-> <<test>>]
         ELSE [kind |-> "TestFailed", test |-> <<>>]
    ELSE [kind |-> "Ok", test |-> <<>>]

\* Mutant of Test: the last retry is never granted (retries > 1).
TestOffByOne(test, measurement) ==
    IF ~Contains(test.expected, measurement)
    THEN IF test.retries > 1
         THEN [kind |-> "TestFailedRetryable",
               test |-> <<[test EXCEPT !.retries = @ - 1]>>]
         ELSE [kind |-> "TestFailed", test |-> <<>>]
    ELSE [kind |-> "Ok", test |-> <<>>]

\* Mutant of Test: an exhausted test is handed back instead of failing
\* terminally.
TestNeverTerminal(test, measurement) ==
    IF ~Contains(test.expected, measurement)
    THEN [kind |-> "TestFailedRetryable",
          test |-> <<[test EXCEPT !.retries = IF @ > 0 THEN @ - 1 ELSE 0]>>]
    ELSE [kind |-> "Ok", test |-> <<>>]

\* MeasurementTest::test
Test(test, measurement) ==
    IF ~Contains(test.expected, measurement)
    THEN IF test.retries > 0
         THEN [kind |-> "TestFailedRetryable",
               test |-> <<[test EXCEPT !.retries = @ - 1]>>]
         ELSE [kind |-> "TestFailed", test |-> <<>>]
    ELSE [kind |-> "Ok", test |-> <<>>]

----------------------------------------------------------------------------
(* execution/transaction.rs *)

\* Transaction::with_tcu
WithTcu(expression, txbytes, test) ==
    [expression |-> expression, txbytes |-> txbytes, txcomplete |-> FALSE,
     device |-> "TCU", response |-> <<>>, test |-> test]

\* Transaction::with_printer
WithPrinter(expression, txbytes, test) ==
    [expression |-> expression, txbytes |-> txbytes, txcomplete |-> FALSE,
     device |-> "Printer", response |-> <<>>, test |-> test]

\* Index of the first CR of s, 0 when there is none.
RECURSIVE FirstCR(_, _)
FirstCR(s, i) ==
    IF i > Len(s) THEN 0
    ELSE IF s[i] = CR THEN i
    ELSE FirstCR(s, i + 1)

\* slice::split_inclusive(|&b| b == b'\r'): the terminator stays with its
\* part, an empty slice has no parts, and bytes after the last terminator
\* form a last, unterminated part.
PartsOf[s \in Seq(0..255)] ==
    IF s = <<>> THEN <<>>
    ELSE LET i == FirstCR(s, 1)
         IN  IF i = 0 THEN <<s>>
             ELSE <<SubSeq(s, 1, i)>> \o PartsOf[SubSeq(s, i + 1, Len(s))]

\* self.response.split_inclusive(|&b| b == b'\r').collect()
SplitInclusive(s) == PartsOf[s]

\* Mutant of ExpectedEndings: echo and measurement are not added up.
ExpectedEndingsAtMostOne(t) ==
    IF t.test # <<>> \/ t.device = "TCU" THEN 1 ELSE 0

\* The number of expected \r characters.
ExpectedEndings(t) ==
    IF t.test # <<>> /\ t.device = "TCU" THEN 2
    ELSE IF t.test # <<>> \/ t.device = "TCU" THEN 1
    ELSE 0

\* Mutant of WriteStep: the no-response short cut is missing.
WriteStepAlwaysOngoing(t) ==
    [status |-> "Ongoing", tx |-> [t EXCEPT !.txcomplete = TRUE],
     validated |-> FALSE, graded |-> FALSE]

\* Mutant of WriteStep: the sent-flag is not set.
WriteStepNotMarked(t) ==
    [status |-> IF t.device = "Printer" /\ t.test = <<>> THEN "Success" ELSE "Ongoing",
     tx |-> t, validated |-> FALSE, graded |-> FALSE]

\* The write branch of Transaction::process, after write_all succeeded.
WriteStep(t) ==
    [status |-> IF t.device = "Printer" /\ t.test = <<>> THEN "Success" ELSE "Ongoing",
     tx |-> [t EXCEPT !.txcomplete = TRUE],
     validated |-> FALSE, graded |-> FALSE]

\* Mutant of Requeue: the sent-flag is left set.
RequeueStillSent(t, test) == [t EXCEPT !.test = test]

\* Mutant of Requeue: the transaction goes back as it was.
RequeueUnchanged(t, test) == t

\* The retryable arm of evaluate_response's match: the returned test is
\* attached and the sent-flag cleared.
Requeue(t, test) == [t EXCEPT !.test = test, !.txcomplete = FALSE]

\* Transaction::evaluate_response.  status is Success or Ongoing (Ok values),
\* ErrTestFailed (an Err value), or a panic of one of the todo!() calls;
\* validated and graded tell whether the echo comparison and
\* MeasurementTest::test were reached.  The match's last arm (todo!() for a
\* ParseError out of test()) has no case here: test() never returns one.
EvaluateResponse(t) ==
    LET echo_expected == t.device = "TCU"
        expected_endings == ExpectedEndings(t)
        parts == SplitInclusive(t.response)
        measurement == IF echo_expected THEN parts[2] ELSE parts[1]
        out(s, u, v, g) == [status |-> s, tx |-> u, validated |-> v, graded |-> g]
    IN  IF expected_endings = 0 THEN out("Success", t, FALSE, FALSE)
        ELSE IF Len(parts) < expected_endings THEN out("Ongoing", t, FALSE, FALSE)
        ELSE IF echo_expected /\ parts[1] # t.txbytes
             THEN out("PanicEcho", t, TRUE, FALSE)
        ELSE IF t.test = <<>> THEN out("Success", t, echo_expected, FALSE)
        ELSE LET m == MeasurementTryFrom(measurement)
             IN  IF m = <<>> THEN out("PanicDecode", t, echo_expected, FALSE)
                 ELSE LET r == Test(t.test[1], m[1])
                      IN  CASE r.kind = "Ok" ->
                                 out("Success", t, echo_expected, TRUE)
                            [] r.kind = "TestFailedRetryable" ->
                                 out("Ongoing", Requeue(t, r.test), echo_expected, TRUE)
                            [] r.kind = "TestFailed" ->
                                 out("ErrTestFailed", t, echo_expected, TRUE)

\* Mutant of FailStep: the channel's error is swallowed and the caller told
\* to go on.
FailStepSwallowed(t) ==
    [status |-> "Ongoing", tx |-> t, validated |-> FALSE, graded |-> FALSE]

\* map_err(into_io_error)? in Transaction::process: write_all or read
\* returned an error, and the call returns Err(Error::from_io_error(..)).
FailStep(t) ==
    [status |-> "ErrIo", tx |-> t, validated |-> FALSE, graded |-> FALSE]

\* Mutant of ReadStep: the bytes read replace the accumulated response.
ReadStepOverwrite(t, bytes) ==
    EvaluateResponse([t EXCEPT !.response = bytes])

\* The read branch of Transaction::process, after read returned bytes.
ReadStep(t, bytes) ==
    EvaluateResponse([t EXCEPT !.response = @ \o bytes])

----------------------------------------------------------------------------
(* The caller, the channel and the device *)

\* Commands the interpreter sends: "A\r" and, without terminator, "A".
TxCommands == { <<65, CR>>, <<65>> }

\* The tests the interpreter attaches: range 20..=30 as in the repository's
\* examples, any retries count up to the bound, or no test.
TestOptions ==
    {<<>>} \cup
    { <<[expected |-> [min |-> U32(20), max |-> U32(30)], retries |-> r,
         failure_message |-> "out of range"]>> : r \in 0..MaxRetries }

\* The command a transaction is built for (syntax/expression/expression.rs).
ExpressionOf(device, test) ==
    IF device = "TCU"
    THEN IF test = <<>> THEN "TCUOpen" ELSE "TCUTest"
    ELSE IF test = <<>> THEN "PrinterSet" ELSE "PrinterTest"

\* What a device may put in front of a measurement: nothing, the echo "A\r",
\* another command's echo "1\r", the unterminated echo "A".
EchoParts == { <<>>, <<65, CR>>, <<49, CR>>, <<65>> }

\* Measurement segments: none, "1A\r" (26), "A\r" (10), "1A1\r" (417),
\* "+1A\r", "Z\r", "\r", a non-text byte, and nine digits (more than 32 bits).
MeasurementParts ==
    { <<>>, <<49, 65, CR>>, <<65, CR>>, <<49, 65, 49, CR>>, <<43, 49, 65, CR>>,
      <<90, CR>>, <<CR>>, <<255, CR>>, <<49, 49, 49, 49, 49, 49, 49, 49, 49, CR>> }

\* Answers to the first write.
FirstReplies == { e \o m : e \in EchoParts, m \in MeasurementParts }

\* Answers to a re-send: silence, or an echo with an in-range or an
\* out-of-range measurement, or such a measurement alone.
RetryReplies ==
    { <<>>, <<65, CR, 49, 65, CR>>, <<65, CR, 65, CR>>, <<49, 65, CR>>, <<65, CR>> }

\* The device's answer to write number n.
Reply(sc, n) == IF n = 1 THEN sc[1] ELSE sc[2]

\* No call yet.
NoCall == [writes |-> 0, reads |-> 0, failed |-> FALSE,
           validated |-> FALSE, graded |-> FALSE]

\* The grading harness at rest.
NoGrade == [test |-> <<>>, graded |-> <<>>, min |-> 0, max |-> 0, n |-> 0,
            fails |-> 0, last |-> "None", value |-> 0]

\* The decoding harness at rest.
NoDecode == [input |-> <<>>, output |-> <<>>, done |-> FALSE]

Init ==
    /\ \E device \in {"TCU", "Printer"}, txbytes \in TxCommands, test \in TestOptions :
          created = IF device = "TCU"
                    THEN WithTcu(ExpressionOf(device, test), txbytes, test)
                    ELSE WithPrinter(ExpressionOf(device, test), txbytes, test)
    /\ tx = created
    /\ result = "Created"
    /\ script \in FirstReplies \X RetryReplies
    /\ rx = <<>>
    /\ wire = <<>>
    /\ nwrites = 0
    /\ call = NoCall
    /\ ngraded = 0
    /\ grade = NoGrade
    /\ decode = NoDecode

\* What process() gives the caller from a step's outcome s, with the channel
\* operations the call made (w writes, r reads) and whether the operation
\* failed.
Returned(s, w, r, f) ==
    /\ tx' = s.tx
    /\ result' = s.status
    /\ call' = [writes |-> w, reads |-> r, failed |-> f,
                validated |-> s.validated, graded |-> s.graded]
    /\ ngraded' = IF s.graded THEN ngraded + 1 ELSE ngraded

\* Transaction::process on the transaction the caller holds.  write_all
\* either accepts every byte or fails after a proper prefix; read returns
\* any number of the pending bytes up to the buffer size, or fails.
Process ==
    /\ result \in {"Created", "Ongoing"}
    /\ IF ~tx.txcomplete
       THEN \/ /\ Returned(WriteStep(tx), 1, 0, FALSE)
               /\ wire' = wire \o tx.txbytes
               /\ nwrites' = nwrites + 1
               /\ rx' = rx \o Reply(script, nwrites + 1)
            \/ /\ \E k \in 0..(Len(tx.txbytes) - 1) :
                    wire' = wire \o SubSeq(tx.txbytes, 1, k)
               /\ Returned(FailStep(tx), 1, 0, TRUE)
               /\ UNCHANGED <<nwrites, rx>>
       ELSE \/ /\ \E count \in 0..Min(Len(rx), BufferSize) :
                    /\ \E outcome \in {ReadStep(tx, SubSeq(rx, 1, count))} :
                                 Returned(outcome, 0, 1, FALSE)
                    /\ rx' = SubSeq(rx, count + 1, Len(rx))
               /\ UNCHANGED <<wire, nwrites>>
            \/ /\ Returned(FailStep(tx), 0, 1, TRUE)
               /\ UNCHANGED <<nwrites, rx, wire>>
    /\ UNCHANGED <<created, script, grade, decode>>

Next == Process

Spec == Init /\ [][Next]_vars

----------------------------------------------------------------------------
(* MeasurementTest::test applied again and again, as a caller re-grading
   the test each retryable failure hands back *)

\* A test with any range over the small values (empty ranges included) and any
\* retries count up to the bound; no transaction is in play.
InitGrade ==
    /\ \E min \in 1..(MaxValue - 1), max \in 1..(MaxValue - 1), n \in 0..MaxRetries :
          grade = [test |-> <<[expected |-> [min |-> U32(min), max |-> U32(max)],
                               retries |-> n, failure_message |-> "out of range"]>>,
                   graded |-> <<>>, min |-> min, max |-> max, n |-> n,
                   fails |-> 0, last |-> "None", value |-> 0]
    /\ created = WithPrinter("PrinterSet", <<>>, <<>>)
    /\ tx = created
    /\ result = "Created"
    /\ script = <<<<>>, <<>>>>
    /\ rx = <<>>
    /\ wire = <<>>
    /\ nwrites = 0
    /\ call = NoCall
    /\ ngraded = 0
    /\ decode = NoDecode

\* One call of test() on the test the caller holds: test() consumes it, and
\* only a retryable failure hands a test back.
Grade ==
    /\ grade.test # <<>>
    /\ \E v \in 0..MaxValue :
          LET r == Test(grade.test[1], U32(v))
          IN  grade' = [grade EXCEPT !.test = r.test,
                                     !.graded = grade.test,
                                     !.fails = IF r.kind = "Ok" THEN @ ELSE @ + 1,
                                     !.last = r.kind,
                                     !.value = v]
    /\ UNCHANGED <<tx, result, created, script, rx, wire, nwrites, call, ngraded, decode>>

NextGrade == Grade

SpecGrade == InitGrade /\ [][NextGrade]_vars

----------------------------------------------------------------------------
(* Measurement::try_from applied to a byte slice *)

\* Bytes the decoding harness builds its inputs from: '1', 'A', 'f', 'G',
\* '+', '-', carriage return and a byte that is not text.
DecodeAlphabet == {49, 65, 102, 71, 43, 45, CR, 255}

\* Every string over the alphabet up to the bound.
ShortInputs ==
    UNION { [1..n -> DecodeAlphabet] : n \in 0..MaxInputLen }

\* Longer inputs: "001A\r", "FFFFFFFF\r" (u32::MAX), "100000000\r" (2^32),
\* "0000000001\r" (ten digits, value 1) and "7FFFFFFF" without terminator.
LongInputs ==
    { <<48, 48, 49, 65, CR>>,
      <<70, 70, 70, 70, 70, 70, 70, 70, CR>>,
      <<49, 48, 48, 48, 48, 48, 48, 48, 48, CR>>,
      <<48, 48, 48, 48, 48, 48, 48, 48, 48, 49, CR>>,
      <<55, 70, 70, 70, 70, 70, 70, 70>> }

InitDecode ==
    /\ \E input \in ShortInputs \cup LongInputs :
          decode = [input |-> input, output |-> <<>>, done |-> FALSE]
    /\ created = WithPrinter("PrinterSet", <<>>, <<>>)
    /\ tx = created
    /\ result = "Created"
    /\ script = <<<<>>, <<>>>>
    /\ rx = <<>>
    /\ wire = <<>>
    /\ nwrites = 0
    /\ call = NoCall
    /\ ngraded = 0
    /\ grade = NoGrade

\* One call of Measurement::try_from on the input.
Decode ==
    /\ ~decode.done
    /\ decode' = [decode EXCEPT !.output = MeasurementTryFrom(decode.input),
                                !.done = TRUE]
    /\ UNCHANGED <<tx, result, created, script, rx, wire, nwrites, call, ngraded, grade>>

NextDecode == Decode

SpecDecode == InitDecode /\ [][NextDecode]_vars

----------------------------------------------------------------------------
(* Vocabulary of the properties *)

\* The outcomes a process() call returns as Err values.
ErrValues == {"ErrIo", "ErrTestFailed", "ErrEcho", "ErrParse"}

\* The outcomes that end a transaction.
Terminal == {"Success", "PanicEcho", "PanicDecode"} \cup ErrValues

\* The carriage-return-terminated segments of a buffer, in order.
RECURSIVE TerminatedSegments(_)
TerminatedSegments(s) ==
    LET i == FirstCR(s, 1)
    IN  IF i = 0 THEN <<>>
        ELSE <<SubSeq(s, 1, i)>> \o TerminatedSegments(SubSeq(s, i + 1, Len(s)))

\* The last call was a read that returned bytes (possibly none) and went on
\* to evaluate_response.
ReadEvaluated == call.reads = 1 /\ result # "ErrIo"

\* The outcome of the exchange when every read returns all the device has
\* sent so far: the write, one read of the whole answer, and after a
\* retryable failure the same again.  "Ongoing" when the answer leaves the
\* transaction waiting for more.
RECURSIVE WholeReadOutcome(_, _)
WholeReadOutcome(t, n) ==
    LET w == WriteStep(t)
        r == ReadStep(w.tx, Reply(script, n + 1))
    IN  IF w.status # "Ongoing" THEN w.status
        ELSE IF r.status # "Ongoing" THEN r.status
        ELSE IF r.tx.txcomplete THEN "Ongoing"
        ELSE WholeReadOutcome(r.tx, n + 1)

----------------------------------------------------------------------------
(* C1 *)

\* C1: fragmentation independence.  Whenever the exchange, with the answer
\* delivered in any chunks, has ended (other than by a channel failure), its
\* outcome is the outcome of the same exchange with every answer delivered
\* whole in one read.
C1_FragmentationIndependence ==
    (result \in Terminal \ {"ErrIo"}) => result = WholeReadOutcome(created, 0)

----------------------------------------------------------------------------
(* C2 *)

\* C2: for a TCU transaction with a test, while the accumulated response
\* holds fewer than two carriage-return-terminated segments a read step
\* neither validates the echo nor grades, and returns Ongoing with the
\* accumulated data retained.
C2_NoEvaluationBeforeTwoSegments ==
    (/\ created.device = "TCU"
     /\ created.test # <<>>
     /\ ReadEvaluated
     /\ Len(TerminatedSegments(tx.response)) < 2)
    => (~call.validated /\ ~call.graded /\ result = "Ongoing")

----------------------------------------------------------------------------
(* C3 *)

\* C3: a Printer transaction without a test is over after its first
\* process() call, which made one write and no read; it returned Success
\* with exactly the outgoing bytes on the channel (or the write's I/O error
\* with less than all of them).
C3_PrinterWriteOnly ==
    (created.device = "Printer" /\ created.test = <<>> /\ result # "Created")
    => /\ call.writes = 1
       /\ call.reads = 0
       /\ result \in {"Success", "ErrIo"}
       /\ result = "Success" <=> (nwrites = 1 /\ wire = created.txbytes)

\* A Printer transaction without a test has returned Success from its write.
C3_Witness ==
    /\ created.device = "Printer"
    /\ created.test = <<>>
    /\ result = "Success"
    /\ wire = created.txbytes
    /\ call = [NoCall EXCEPT !.writes = 1]

----------------------------------------------------------------------------
(* C4 *)

\* C4: when a TCU transaction's read step evaluates a response that holds the
\* segments it expects and whose first segment is not the bytes sent, the
\* call returns an Err value.
C4_EchoMismatchIsTypedError ==
    (/\ created.device = "TCU"
     /\ ReadEvaluated
     /\ LET segs == TerminatedSegments(tx.response)
        IN  Len(segs) >= ExpectedEndings(created) /\ segs[1] # tx.txbytes)
    => result \in ErrValues

----------------------------------------------------------------------------
(* C5 *)

\* C5: a TCU transaction returns Success only when the first
\* carriage-return-terminated segment of the accumulated response is the
\* bytes sent.
C5_SuccessOnlyWithEcho ==
    (created.device = "TCU" /\ result = "Success")
    => LET segs == TerminatedSegments(tx.response)
       IN  Len(segs) >= 1 /\ segs[1] = tx.txbytes

----------------------------------------------------------------------------
(* C6 *)

\* C6: test(value) returns Ok exactly when min <= value <= max, whatever the
\* retries count.
C6_OkIffInRange ==
    grade.last # "None"
    => (grade.last = "Ok" <=> (grade.min <= grade.value /\ grade.value <= grade.max))

\* A value equal to the upper endpoint of a range of several values passed.
C6_Witness ==
    /\ grade.last = "Ok"
    /\ grade.value = grade.max
    /\ grade.min < grade.max

----------------------------------------------------------------------------
(* C7 *)

\* C7: an out-of-range value graded by a test with retries > 0 gives
\* TestFailedRetryable, and the test it carries has the old retries minus 1
\* and the same expected range and failure message.
C7_RetryableCarriesDecrementedTest ==
    /\ (/\ grade.last # "None"
        /\ ~(grade.min <= grade.value /\ grade.value <= grade.max)
        /\ grade.graded[1].retries > 0)
       => grade.last = "TestFailedRetryable"
    /\ grade.last = "TestFailedRetryable"
       => /\ Len(grade.test) = 1
          /\ grade.test[1].retries = grade.graded[1].retries - 1
          /\ grade.test[1].expected = grade.graded[1].expected
          /\ grade.test[1].failure_message = grade.graded[1].failure_message

\* A test with retries 2 graded a value below its range and handed back a test.
C7_Witness ==
    /\ grade.last = "TestFailedRetryable"
    /\ grade.value < grade.min
    /\ grade.graded[1].retries = 2
    /\ grade.test[1].retries = 1

----------------------------------------------------------------------------
(* C8 *)

\* C8: from a test created with retries n, the k-th failing grading
\* (k <= n) is retryable and leaves retries n - k; the (n+1)-th is the
\* terminal TestFailed with no test; with n = 0 nothing is ever retryable.
C8_RetryBudgetSequence ==
    /\ grade.last = "TestFailedRetryable"
       => /\ grade.fails >= 1
          /\ grade.fails <= grade.n
          /\ grade.test[1].retries = grade.n - grade.fails
    /\ grade.last = "TestFailed"
       => /\ grade.fails = grade.n + 1
          /\ grade.test = <<>>
    /\ grade.n = 0 => grade.last # "TestFailedRetryable"

\* A test created with retries 2 failed terminally on its third failing grading.
C8_Witness ==
    /\ grade.last = "TestFailed"
    /\ grade.n = 2
    /\ grade.fails = 3

----------------------------------------------------------------------------
(* C9 *)

\* C9: when a read step evaluates a complete response (the expected
\* segments, a correct echo where one is expected) whose measurement
\* segment does not decode, the call returns an Err value and has not
\* graded.
C9_DecodeFailureIsTypedError ==
    (/\ created.test # <<>>
     /\ ReadEvaluated
     /\ LET segs == TerminatedSegments(tx.response)
            n == ExpectedEndings(created)
        IN  /\ Len(segs) >= n
            /\ created.device = "TCU" => segs[1] = tx.txbytes
            /\ MeasurementTryFrom(segs[n]) = <<>>)
    => (result \in ErrValues /\ ~call.graded)

----------------------------------------------------------------------------
(* C10 *)

\* C10: every process() call makes exactly one channel operation, a write
\* when the sent-flag was false and a read when it was true; a write step
\* that neither completes nor fails returns Ongoing with the sent-flag true.
C10_OneChannelOperationPerCall ==
    [][/\ ~tx.txcomplete => (call'.writes = 1 /\ call'.reads = 0)
       /\ tx.txcomplete => (call'.writes = 0 /\ call'.reads = 1)
       /\ (call'.writes = 1 /\ result' \notin Terminal)
          => (result' = "Ongoing" /\ tx'.txcomplete)]_vars

\* A second write (after a retryable failure) has returned Ongoing with the
\* sent-flag set: writes and a read have all happened.
C10_Witness ==
    /\ nwrites = 2
    /\ call.writes = 1
    /\ result = "Ongoing"
    /\ tx.txcomplete

----------------------------------------------------------------------------
(* C11 *)

\* C11: a process() call whose write or read fails returns the I/O error
\* (never Ongoing or Success), has made that one channel operation only,
\* leaves the attached test's retries as they were, and is the exchange's
\* last call.
C11_IoFailureIsFatal ==
    [][/\ call'.failed
          => /\ result' = "ErrIo"
             /\ call'.writes + call'.reads = 1
             /\ ~call'.graded
             /\ tx'.test = tx.test
             /\ ngraded' = ngraded
       /\ ~call.failed]_vars

\* The read of a re-sent command (after a retryable failure) failed.
C11_Witness ==
    /\ call.failed
    /\ call.reads = 1
    /\ nwrites = 2
    /\ result = "ErrIo"

----------------------------------------------------------------------------
(* C12 *)

\* The bytes before the first carriage return (all of them when there is none).
PrefixBeforeCR(bytes) ==
    LET i == FirstCR(bytes, 1)
    IN  IF i = 0 THEN bytes ELSE SubSeq(bytes, 1, i - 1)

\* The ASCII hexadecimal digits.
IsHexChar(b) == b \in (48..57) \cup (65..70) \cup (97..102)

\* The value of a hexadecimal digit.
HexCharValue(b) == IF b <= 57 THEN b - 48 ELSE IF b <= 70 THEN b - 55 ELSE b - 87

\* A digit string without its leading zeros.
RECURSIVE StripZeros(_)
StripZeros(p) == IF p # <<>> /\ Head(p) = 48 THEN StripZeros(Tail(p)) ELSE p

\* The base-16 value of a string of at most seven digits.
RECURSIVE Base16(_)
Base16(p) ==
    IF p = <<>> THEN 0
    ELSE Base16(SubSeq(p, 1, Len(p) - 1)) * 16 + HexCharValue(p[Len(p)])

\* A non-empty string of hexadecimal digits whose value fits in 32 bits
\* (at most eight digits after the leading zeros).
IsHexLiteral32(p) ==
    /\ p # <<>>
    /\ \A i \in 1..Len(p) : IsHexChar(p[i])
    /\ Len(StripZeros(p)) <= 8

\* C12: decoding succeeds exactly when the bytes before the first carriage
\* return are a non-empty string of hexadecimal digits whose value fits in
\* 32 bits, and then yields that value; every other input fails.
C12_DecodeExactlyHexLiteral ==
    decode.done
    => LET p == PrefixBeforeCR(decode.input)
       IN  /\ decode.output # <<>> <=> IsHexLiteral32(p)
           /\ (IsHexLiteral32(p) /\ Len(StripZeros(p)) <= 7)
              => decode.output = <<U32(Base16(StripZeros(p)))>>

----------------------------------------------------------------------------
(* C13 *)

\* The echo a device sends ahead of its measurement: the command for a TCU,
\* nothing for the printer.
EchoOf(t) == IF t.device = "TCU" THEN t.txbytes ELSE <<>>

\* The device answers the first write with an out-of-range measurement
\* ("A\r", 10) and every re-send with an in-range one ("1A\r", 26), each
\* after the echo where one is due, and the test allows a retry.
OutOfRangeThenInRange ==
    /\ created.test # <<>>
    /\ created.test[1].retries >= 1
    /\ created.txbytes = <<65, CR>>
    /\ script[1] = EchoOf(created) \o <<65, CR>>
    /\ script[2] = EchoOf(created) \o <<49, 65, CR>>

\* C13: after a retryable failure the stale response is not graded again:
\* with a device that answers out of range first and in range on the retry,
\* the exchange can only end in Success (or a channel failure).
C13_RetryGradesFreshResponse ==
    (OutOfRangeThenInRange /\ result \in Terminal \ {"ErrIo"})
    => result = "Success"

----------------------------------------------------------------------------
(* C14 *)

\* C14: a call that graded, did not pass, and whose test had retries left
\* returns Ongoing with the sent-flag false and the decremented test
\* attached; the call after such a return is a write, not a read.
C14_RetryableRequeuesWrite ==
    [][/\ (call'.graded /\ result' # "Success" /\ tx.test[1].retries > 0)
          => /\ result' = "Ongoing"
             /\ ~tx'.txcomplete
             /\ tx'.test = <<[tx.test[1] EXCEPT !.retries = @ - 1]>>
       /\ (call.graded /\ result = "Ongoing")
          => (call'.writes = 1 /\ call'.reads = 0)]_vars

\* The command has been written again after a retryable failure, with the
\* decremented test attached.
C14_Witness ==
    /\ nwrites = 2
    /\ call.writes = 1
    /\ ~call.failed
    /\ tx.test[1].retries = created.test[1].retries - 1

----------------------------------------------------------------------------
(* C15 *)

\* C15: a call that graded and did not pass with the test's retries at 0
\* returns the terminal test failure, built from the transaction's own
\* command, and no call follows a terminal test failure.
C15_ExhaustedTestIsTerminal ==
    [][/\ (call'.graded /\ result' # "Success" /\ tx.test[1].retries = 0)
          => /\ result' = "ErrTestFailed"
             /\ tx'.expression = created.expression
       /\ result # "ErrTestFailed"]_vars

\* A test created with retries 2 has failed terminally after two re-sends.
C15_Witness ==
    /\ result = "ErrTestFailed"
    /\ call.graded
    /\ created.test[1].retries = 2
    /\ nwrites = 3

----------------------------------------------------------------------------
(* C16 *)

\* C16: a transaction with a test returns Success only from a read step, and
\* only when the accumulated response holds its measurement segment (the
\* second carriage-return-terminated segment for a TCU, the first for the
\* printer) and that segment decodes to a value inside the test's range.
C16_SuccessOnlyInRange ==
    (created.test # <<>> /\ result = "Success")
    => /\ call.reads = 1
       /\ LET segs == TerminatedSegments(tx.response)
              n == ExpectedEndings(created)
          IN  /\ Len(segs) >= n
              /\ MeasurementTryFrom(segs[n]) # <<>>
              /\ Le(created.test[1].expected.min, MeasurementTryFrom(segs[n])[1])
              /\ Le(MeasurementTryFrom(segs[n])[1], created.test[1].expected.max)

----------------------------------------------------------------------------
(* C17 *)

\* C17: a read step that finds fewer parts than expected in the accumulated
\* response returns Ongoing with the transaction it was given, the bytes
\* just read appended to the response and nothing else changed; with no
\* bytes read the transaction is unchanged.
C17_IncompleteReadOnlyAppends ==
    [][LET read == SubSeq(rx, 1, Len(rx) - Len(rx'))
           accumulated == tx.response \o read
       IN  (/\ tx.txcomplete
            /\ call'.reads = 1
            /\ ~call'.failed
            /\ Len(SplitInclusive(accumulated)) < ExpectedEndings(tx))
           => /\ result' = "Ongoing"
              /\ tx'.response = accumulated
              /\ tx'.txbytes = tx.txbytes
              /\ tx'.device = tx.device
              /\ tx'.txcomplete
              /\ tx'.test = tx.test
              /\ tx'.expression = tx.expression
              /\ read = <<>> => tx' = tx]_vars

\* A TCU transaction with a test is waiting with its echo accumulated over
\* two reads and the measurement still to come.
C17_Witness ==
    /\ result = "Ongoing"
    /\ call.reads = 1
    /\ tx.txcomplete
    /\ tx.response = <<65, CR>>
    /\ rx # <<>>
    /\ ExpectedEndings(tx) = 2

----------------------------------------------------------------------------
(* C18 *)

\* The number of segments the specification requires for a transaction.
RequiredSegments(t) ==
    (IF t.device = "TCU" THEN 1 ELSE 0) + (IF t.test # <<>> THEN 1 ELSE 0)

\* C18: the count required before evaluation is 2 for TCU with a test, 1 for
\* TCU without a test and for Printer with a test, 0 for Printer without a
\* test; no validation or grading happens with fewer parts accumulated; and
\* a Printer transaction without a test completes on its write step and is
\* never taken through the read step.
C18_ExpectedSegmentCount ==
    /\ ExpectedEndings(created) = RequiredSegments(created)
    /\ ExpectedEndings(tx) = RequiredSegments(tx)
    /\ (call.validated \/ call.graded)
       => Len(SplitInclusive(tx.response)) >= RequiredSegments(tx)
    /\ (call.reads = 1 /\ ~call.failed /\ result = "Ongoing"
        /\ ~call.validated /\ ~call.graded)
       => Len(SplitInclusive(tx.response)) < RequiredSegments(tx)
    /\ (created.device = "Printer" /\ created.test = <<>>)
       => /\ call.reads = 0
          /\ (call.writes = 1 /\ ~call.failed) => result = "Success"
    /\ call.reads = 1 => RequiredSegments(tx) > 0

\* A TCU transaction with a test was evaluated on two accumulated parts, and
\* not before.
C18_Witness ==
    /\ created.device = "TCU"
    /\ created.test # <<>>
    /\ call.reads = 1
    /\ call.validated
    /\ call.graded
    /\ Len(SplitInclusive(tx.response)) = 2

----------------------------------------------------------------------------
(* C19 *)

\* The writes of the outgoing bytes attempted so far, a failed one included.
WriteAttempts ==
    nwrites + (IF call.writes = 1 /\ call.failed THEN 1 ELSE 0)

\* C19: for a transaction created with a test whose retries is n, the
\* outgoing bytes are never written more than n + 1 times and never more
\* than n + 1 gradings are performed, whatever the channel does; no step
\* increases the attached test's retries or changes the outgoing bytes or
\* the device.
C19_BoundedRetryByCount ==
    /\ [](created.test # <<>>
          => /\ WriteAttempts <= created.test[1].retries + 1
             /\ ngraded <= created.test[1].retries + 1
             /\ tx.test # <<>> => tx.test[1].retries <= created.test[1].retries)
    /\ [][/\ tx'.txbytes = tx.txbytes
          /\ tx'.device = tx.device
          /\ tx'.test # <<>>
             => /\ tx.test # <<>>
                /\ tx'.test[1].retries <= tx.test[1].retries]_vars

\* A test created with retries 2 used its whole budget: three writes and
\* three gradings, the last one terminal.
C19_Witness ==
    /\ created.test # <<>>
    /\ created.test[1].retries = 2
    /\ nwrites = 3
    /\ ngraded = 3
    /\ result = "ErrTestFailed"

----------------------------------------------------------------------------
(* C20 *)

\* The caller calls process() again after every Ongoing result, and the
\* channel keeps working: a call that does not fail is eventually made
\* whenever one would change the state (pending bytes are eventually read).
\* Carriage-return-terminated hexadecimal measurements: "1A\r", "A\r", "1A1\r".
HexMeasurements == { <<49, 65, CR>>, <<65, CR>>, <<49, 65, 49, CR>> }

\* A complete well-formed response to t: the echoed command as one
\* terminated segment where an echo is due, then a terminated hexadecimal
\* measurement where a test is attached.
WellFormedResponse(t, reply) ==
    /\ t.device = "TCU" => t.txbytes[Len(t.txbytes)] = CR
    /\ \E m \in HexMeasurements :
          reply = EchoOf(t) \o (IF t.test # <<>> THEN m ELSE <<>>)

\* The device answers every write with a complete well-formed response.
WellFormedScript ==
    /\ WellFormedResponse(created, script[1])
    /\ WellFormedResponse(created, script[2])

\* The transactions whose device answers well-formed.
InitLive == Init /\ WellFormedScript

SpecLive == InitLive /\ [][Next]_vars /\ WF_vars(Process /\ ~call'.failed)

============================================================================
